---- MODULE Spec2Model ----
(***************************************************************************)
(* A model of the object store of codecrafters-git-rust: the Object Writer *)
(* (temporary file, zlib encoder, running SHA-1, rename), hash_object -w,  *)
(* write_blob / write_tree / write_commit, the tree entry codec with       *)
(* read_tree, and the resolution of full or partial object names.           *)
(*                                                                         *)
(* Text is a sequence of byte values.  SHA-1 is idealised as collision     *)
(* free: the identifier of a byte sequence is that sequence, two           *)
(* hexadecimal characters for each byte.                                   *)
(* The module holds five specifications over disjoint groups of variables: *)
(*   Spec        processes writing objects into one repository             *)
(*   SpecWriter  one Object Writer fed through a partially accepting       *)
(*               compressor, against hash_blob                             *)
(*   SpecCodec   TreeEntry::as_bytes and the read_tree loop                *)
(*   SpecResolve get_object_path over a set of stored objects              *)
(*   SpecTree    one directory level of write_tree                         *)
(***************************************************************************)
EXTENDS Integers, Sequences, FiniteSets, TLC

VARIABLES
    \* ---- Spec: the repository on disk and the processes using it
    temps,      \* temp name -> [data, finished]: the temporary files in .git/objects
    objects,    \* object id -> [data, finished]: the files at final paths objects/xx/yyyy...
    fanout,     \* the two-hex directories that exist under .git/objects
    proc,       \* per process: call stack of open operations, result, history
    lastRead,   \* what the last reader saw at a final path
    \* ---- SpecWriter
    wKind,      \* the operation: "write_blob" or "write_commit"
    wFile,      \* content of the file being hashed and written (or the commit text)
    wPc,        \* position of the operation
    wQueue,     \* pieces of the formatted header still to be passed to write_all
    wHashed,    \* bytes fed to ObjectWriter.hasher
    wAccepted,  \* uncompressed bytes accepted by ObjectWriter.file (the encoder)
    wPending,   \* remainder of the buffer a write_all loop still has to write
    wRest,      \* part of the file io::copy has not read yet
    wHashBlob,  \* identifier returned by hash_blob
    wWriteBlob, \* identifier returned by write_blob
    \* ---- SpecCodec
    cType,      \* type named in the stored object's header
    cEntries,   \* the entries the tree object was built from
    cDeclared,  \* payload length declared in the object's header
    cStream,    \* bytes of the payload not read yet
    cLeft,      \* read_tree's `left`
    cContents,  \* read_tree's `contents`
    cStatus,    \* "start" | "loop" | "ok" | "err" | "panic"
    cWrapped,   \* `left -= ...` went below zero
    \* ---- SpecResolve
    rStored,    \* ids of the objects stored in the repository
    rQuery,     \* the name last asked for, since the store last changed
    rResult,    \* what get_object_path returned for it
    \* ---- SpecTree
    tDir,       \* the directory: set of children
    tOrder,     \* children read_dir has not yielded yet; it yields them in any order
    tContents,  \* write_tree's `contents`
    tStatus,    \* "iter" | "written" | "err"
    tModes,     \* raw child name -> mode pushed for it
    tWritten    \* entries of the tree object written

storeVars   == <<temps, objects, fanout, proc, lastRead>>
writerVars  == <<wKind, wFile, wPc, wQueue, wHashed, wAccepted, wPending, wRest, wHashBlob, wWriteBlob>>
codecVars   == <<cType, cEntries, cDeclared, cStream, cLeft, cContents, cStatus, cWrapped>>
resolveVars == <<rStored, rQuery, rResult>>
treeVars    == <<tDir, tOrder, tContents, tStatus, tModes, tWritten>>
vars        == <<storeVars, writerVars, codecVars, resolveVars, treeVars>>

nonStoreVars  == <<writerVars, codecVars, resolveVars, treeVars>>
nonWriterVars == <<storeVars, codecVars, resolveVars, treeVars>>
nonCodecVars  == <<storeVars, writerVars, resolveVars, treeVars>>
nonResolveVars == <<storeVars, writerVars, codecVars, treeVars>>
nonTreeVars   == <<storeVars, writerVars, codecVars, resolveVars>>

-----------------------------------------------------------------------------
(* Sequences and bytes *)

Prefixes(s) == { SubSeq(s, 1, n) : n \in 0..Len(s) }

StartsWith(s, p) == Len(p) <= Len(s) /\ SubSeq(s, 1, Len(p)) = p

\* Ord on Rust strings and byte slices: lexicographic on bytes, a proper prefix first
RECURSIVE LexLess(_, _)
LexLess(a, b) ==
    IF b = <<>> THEN FALSE
    ELSE IF a = <<>> THEN TRUE
    ELSE IF Head(a) # Head(b) THEN Head(a) < Head(b)
    ELSE LexLess(Tail(a), Tail(b))

\* OsStr::to_string_lossy: a byte that belongs to no well-formed UTF-8 sequence
\* becomes U+FFFD (EF BF BD).  Names here are ASCII bytes and the bytes FE and FF,
\* which no UTF-8 sequence contains, so each such byte is replaced on its own.
RECURSIVE ToStringLossy(_)
ToStringLossy(bytes) ==
    IF bytes = <<>> THEN <<>>
    ELSE (IF Head(bytes) < 128 THEN <<Head(bytes)>> ELSE <<239, 191, 189>>)
         \o ToStringLossy(Tail(bytes))

\* one lowercase hexadecimal digit, as a character
HexDigit(d) == IF d < 10 THEN 48 + d ELSE 87 + d

\* "{:02x}" of one byte
HexByte(b) == <<HexDigit(b \div 16), HexDigit(b % 16)>>

\* "{:x}" of one byte: no padding
HexNoPad(b) == IF b < 16 THEN <<HexDigit(b)>> ELSE HexByte(b)

\* value of one hexadecimal digit character
DigitValue(c) == IF c >= 97 THEN c - 87 ELSE IF c >= 65 THEN c - 55 ELSE c - 48

\* u8::from_str_radix(st, 16) of a chunk of one or two characters
FromStrRadix16(st) ==
    IF Len(st) = 1 THEN DigitValue(st[1]) ELSE 16 * DigitValue(st[1]) + DigitValue(st[2])

\* "{}" of a usize: its decimal digits
RECURSIVE Decimal(_)
Decimal(n) == IF n < 10 THEN <<48 + n>> ELSE Decimal(n \div 10) \o <<48 + (n % 10)>>

\* format!("{:x}", hasher.finalize()) of a hasher that was fed `bytes`.  SHA-1 is
\* idealised as injective: the digest is the input itself, so two inputs get the
\* same identifier exactly when they are equal.
RECURSIVE Sha1Hex(_)
Sha1Hex(bytes) ==
    IF bytes = <<>> THEN <<>> ELSE HexByte(Head(bytes)) \o Sha1Hex(Tail(bytes))

TypeBlob   == <<98, 108, 111, 98>>
TypeTree   == <<116, 114, 101, 101>>
TypeCommit == <<99, 111, 109, 109, 105, 116>>

\* "<type> <len>\0"
Header(type, len) == type \o <<32>> \o Decimal(len) \o <<0>>

-----------------------------------------------------------------------------
(* Tree entries *)

Mode40000  == <<52, 48, 48, 48, 48>>
Mode120000 == <<49, 50, 48, 48, 48, 48>>
Mode100755 == <<49, 48, 48, 55, 53, 53>>
Mode100644 == <<49, 48, 48, 54, 52, 52>>

\* TreeEntry::len_as_bytes
LenAsBytes(e) == Len(e.name) + Len(e.mode) + 22

\* the hash_u8 of TreeEntry::as_bytes: chunks(2) of the hex string, each parsed
RECURSIVE HashU8(_)
HashU8(hash) ==
    IF hash = <<>> THEN <<>>
    ELSE IF Len(hash) = 1 THEN <<FromStrRadix16(hash)>>
    ELSE <<FromStrRadix16(SubSeq(hash, 1, 2))>> \o HashU8(SubSeq(hash, 3, Len(hash)))

\* TreeEntry::as_bytes
AsBytes(e) == e.mode \o <<32>> \o e.name \o <<0>> \o HashU8(e.hash)

\* contents.sort_by_key(|te| te.name.clone()): a stable sort on the name
RECURSIVE InsertByName(_, _)
InsertByName(sorted, e) ==
    IF sorted = <<>> THEN <<e>>
    ELSE IF LexLess(e.name, sorted[Len(sorted)].name)
         THEN Append(InsertByName(SubSeq(sorted, 1, Len(sorted) - 1), e), sorted[Len(sorted)])
         ELSE Append(sorted, e)

RECURSIVE SortByName(_)
SortByName(s) ==
    IF s = <<>> THEN <<>>
    ELSE InsertByName(SortByName(SubSeq(s, 1, Len(s) - 1)), s[Len(s)])

RECURSIVE MapAsBytes(_)
MapAsBytes(es) == IF es = <<>> THEN <<>> ELSE AsBytes(Head(es)) \o MapAsBytes(Tail(es))

RECURSIVE SumLenAsBytes(_)
SumLenAsBytes(es) == IF es = <<>> THEN 0 ELSE LenAsBytes(Head(es)) + SumLenAsBytes(Tail(es))

\* the bytes write_tree feeds its writer for the collected entries, sorted first
TreeData(contents) ==
    Header(TypeTree, SumLenAsBytes(SortByName(contents))) \o MapAsBytes(SortByName(contents))

\* the bytes write_blob feeds its writer
BlobData(content) == Header(TypeBlob, Len(content)) \o content

\* What a child of a directory is on disk.  kind is "file", "dir" or "symlink";
\* a symlink's target is "file", "dir" or "dangling" (exec and content are then
\* the target's).
Node(kind, name, exec, content, children, target) ==
    [kind |-> kind, name |-> name, exec |-> exec, content |-> content,
     children |-> children, target |-> target]

\* what stat(2) reports: Path::is_dir and Path::metadata both follow symbolic links
FollowKind(node) == IF node.kind = "symlink" THEN node.target ELSE node.kind

\* entry_path.is_dir()
PathIsDir(node) == FollowKind(node) = "dir"

\* entry_path.metadata() fails on a link whose target is missing
MetadataOk(node) == FollowKind(node) # "dangling"

\* meta.file_type().is_symlink(), meta being the followed metadata: stat never
\* reports the link itself
MetaIsSymlink(node) == FollowKind(node) = "symlink"

\* the mode write_tree records for a child
ModeOf(node) ==
    IF FollowKind(node) = "dir" THEN Mode40000
    ELSE IF MetaIsSymlink(node) THEN Mode120000
    ELSE IF node.exec THEN Mode100755
    ELSE Mode100644

\* entry_path.file_name().unwrap().to_string_lossy().into()
EntryName(node) == ToStringLossy(node.name)

TreeEntry(mode, name, hash) == [mode |-> mode, name |-> name, hash |-> hash]

DotGit == <<46, 103, 105, 116>>

\* the filter the write-tree command passes: everything but the entry named .git
Keep(node) == node.name # DotGit

-----------------------------------------------------------------------------
(* Commits *)

\* res_vec.join("\n")
RECURSIVE JoinLines(_)
JoinLines(ls) ==
    IF ls = <<>> THEN <<>>
    ELSE IF Len(ls) = 1 THEN Head(ls)
    ELSE Head(ls) \o <<10>> \o JoinLines(Tail(ls))

\* CommitInfo::into_string
IntoString(info) ==
    LET stamp  == Decimal(info.stamp) \o <<32, 43, 48, 48, 48, 48>>
        who    == info.author_name \o <<32, 60>> \o info.author_email \o <<62, 32>> \o stamp
        tree   == <<TypeTree \o <<32>> \o info.tree_sha>>
        parent == IF info.has_parent
                  THEN << <<112, 97, 114, 101, 110, 116, 32>> \o info.parent_sha >>
                  ELSE <<>>
    IN  JoinLines(tree \o parent
                  \o << <<97, 117, 116, 104, 111, 114, 32>> \o who,
                        <<99, 111, 109, 109, 105, 116, 116, 101, 114, 32>> \o who,
                        <<10>> \o info.commit_message \o <<10>> >>)

\* the bytes write_commit feeds its writer
CommitData(info) == Header(TypeCommit, Len(IntoString(info))) \o IntoString(info)

-----------------------------------------------------------------------------
(* Spec: processes writing objects into one repository *)

Procs == {"p1", "p2"}

\* calls made in all, by either process
MaxCalls == 2

NoInfo == [tree_sha |-> <<>>, has_parent |-> FALSE, parent_sha |-> <<>>,
           author_name |-> <<>>, author_email |-> <<>>, stamp |-> 0,
           commit_message |-> <<>>]

NoNode == Node("none", <<>>, FALSE, <<>>, {}, "none")

\* the working directory: s/b and .git, and a file a outside it
FileA   == Node("file", <<97>>, FALSE, <<104>>, {}, "none")
FileB   == Node("file", <<98>>, TRUE, <<104, 105>>, {}, "none")
SubDir  == Node("dir", <<115>>, FALSE, <<>>, {FileB}, "none")
GitNode == Node("dir", DotGit, FALSE, <<>>, {}, "none")
RootDir == Node("dir", <<46>>, FALSE, <<>>, {SubDir, GitNode}, "none")

Info1 == [tree_sha |-> Sha1Hex(TreeData(<<>>)), has_parent |-> FALSE, parent_sha |-> <<>>,
          author_name |-> <<110>>, author_email |-> <<109>>, stamp |-> 12,
          commit_message |-> <<120>>]

\* the calls a process may make
Calls ==
    { [fn |-> "write_blob", node |-> FileA, info |-> NoInfo],
      [fn |-> "write_tree", node |-> RootDir, info |-> NoInfo],
      [fn |-> "write_commit", node |-> NoNode, info |-> Info1],
      [fn |-> "hash_object", node |-> FileA, info |-> NoInfo],
      [fn |-> "cat_file", node |-> FileA, info |-> NoInfo] }

\* One open operation.  holds says where its file descriptor leads: "none", "tmp"
\* (its temporary file), "obj" (the file at the final path of its object) or
\* "gone" (a file no name leads to any more).
Frame(fn, node, info) ==
    [fn |-> fn, node |-> node, info |-> info, stage |-> "new", holds |-> "none",
     renamed |-> FALSE, todo |-> node.children, contents |-> <<>>, data |-> <<>>]

OnDisk(data, finished) == [data |-> data, finished |-> finished]

Stack(p) == proc[p].stack
Top(p)   == Stack(p)[Len(Stack(p))]
Running(p) == Stack(p) # <<>> /\ ~proc[p].unwinding
UsesWriter(f) == f.fn \in {"write_blob", "write_tree", "write_commit"}

\* the name NamedTempFile::new_in picked for the writer on top of p's stack: no
\* other file has it
TempName(p) == <<p, Len(Stack(p))>>

SetTop(p, f) == [proc EXCEPT ![p].stack[Len(Stack(p))] = f]

\* the bytes a frame's operation feeds to its sink
DataOf(f) ==
    IF f.fn = "write_tree" THEN TreeData(f.contents)
    ELSE IF f.fn = "write_commit" THEN CommitData(f.info)
    ELSE BlobData(f.node.content)

\* &hash[..2]
HashDir(hash) == SubSeq(hash, 1, 2)

\* what may have reached the file when the writes return: the encoder keeps its
\* output and hands it over at the start of a later write, so nothing of a short
\* object, up to all the deflated data (never the trailer) of a long one
FlushPoints(data) == {<<>>, data}

\* a file at a final path is a whole object hashing to its name
Complete(id) == objects[id].finished /\ Sha1Hex(objects[id].data) = id

\* the file a frame's descriptor leads to gets this content
TempsAfterWrite(p, f, content) ==
    IF f.holds = "tmp" THEN [temps EXCEPT ![TempName(p)] = content] ELSE temps

ObjectsAfterWrite(f, content) ==
    IF f.holds = "obj" THEN [objects EXCEPT ![Sha1Hex(f.data)] = content] ELSE objects

RECURSIVE SumOver(_, _)
SumOver(f, S) ==
    IF S = {} THEN 0 ELSE LET x == CHOOSE y \in S : TRUE IN f[x] + SumOver(f, S \ {x})

CallsMade == SumOver([p \in Procs |-> proc[p].ncalls], Procs)

InitStore ==
    /\ temps = <<>>
    /\ objects = <<>>
    /\ fanout = {}
    /\ proc = [p \in Procs |-> [stack |-> <<>>, unwinding |-> FALSE, result |-> "none",
                                fn |-> "none", added |-> {}, ncalls |-> 0]]
    /\ lastRead = "none"

\* a command starts
Call(p) ==
    /\ Stack(p) = <<>>
    /\ CallsMade < MaxCalls
    /\ \E c \in Calls :
         proc' = [proc EXCEPT ![p].stack = <<Frame(c.fn, c.node, c.info)>>,
                              ![p].result = "none", ![p].fn = c.fn,
                              ![p].added = {}, ![p].ncalls = @ + 1]
    /\ UNCHANGED <<temps, objects, fanout, lastRead, nonStoreVars>>

\* ObjectWriter::new (for write_blob, after File::open): a temporary file appears
\* in .git/objects
WriterNew(p) ==
    /\ Running(p) /\ UsesWriter(Top(p)) /\ Top(p).stage = "new"
    /\ temps' = (TempName(p) :> OnDisk(<<>>, FALSE)) @@ temps
    /\ proc' = [proc EXCEPT
           ![p].stack[Len(Stack(p))] =
               [Top(p) EXCEPT !.holds = "tmp",
                              !.stage = IF Top(p).fn = "write_tree" THEN "iter" ELSE "write"],
           ![p].added = @ \cup {<<"tmp", TempName(p)>>}]
    /\ UNCHANGED <<objects, fanout, lastRead, nonStoreVars>>

\* the entries of the directory the loop of write_tree has still to handle:
\* those the filter drops are passed over
Kept(f) == {c \in f.todo : Keep(c)}

\* write_tree's loop takes the next entry read_dir yields that the filter keeps,
\* and writes it as a tree or as a blob
TreeIter(p) ==
    /\ Running(p) /\ Top(p).fn = "write_tree" /\ Top(p).stage = "iter"
    /\ \E c \in Kept(Top(p)) :
         proc' = [proc EXCEPT ![p].stack =
             Append(SubSeq(@, 1, Len(@) - 1), [Top(p) EXCEPT !.todo = @ \ {c}, !.stage = "child"])
             \o <<Frame(IF PathIsDir(c) THEN "write_tree" ELSE "write_blob", c, NoInfo)>>]
    /\ UNCHANGED <<temps, objects, fanout, lastRead, nonStoreVars>>

\* the header and the payload go into the sink; when the calls return the encoder
\* has handed nothing, or all but the end of the stream, to the file
Write(p) ==
    /\ Running(p)
    /\ \/ Top(p).stage = "write"
       \/ Top(p).fn = "write_tree" /\ Top(p).stage = "iter" /\ Kept(Top(p)) = {}
    /\ LET f == [Top(p) EXCEPT !.data = DataOf(Top(p))]
       IN  /\ \E flushed \in FlushPoints(f.data) :
                /\ temps' = TempsAfterWrite(p, f, OnDisk(flushed, FALSE))
                /\ objects' = ObjectsAfterWrite(f, OnDisk(flushed, FALSE))
           /\ proc' = SetTop(p, [f EXCEPT !.stage = IF UsesWriter(f) THEN "ensure_dir" ELSE "drop"])
    /\ UNCHANGED <<fanout, lastRead, nonStoreVars>>

\* hash_object opens and hashes the file
HoHash(p) ==
    /\ Running(p) /\ Top(p).fn = "hash_object" /\ Top(p).stage = "new"
    /\ proc' = SetTop(p, [Top(p) EXCEPT !.data = DataOf(Top(p)), !.stage = "ensure_dir"])
    /\ UNCHANGED <<temps, objects, fanout, lastRead, nonStoreVars>>

\* ensure_dir(path, &hash[..2])
EnsureDir(p) ==
    /\ Running(p) /\ Top(p).stage = "ensure_dir"
    /\ LET d == HashDir(Sha1Hex(Top(p).data))
       IN  /\ fanout' = fanout \cup {d}
           /\ proc' = [proc EXCEPT
                  ![p].stack[Len(Stack(p))].stage = IF UsesWriter(Top(p)) THEN "rename" ELSE "open",
                  ![p].added = IF d \in fanout THEN @ ELSE @ \cup {<<"dir", d>>}]
    /\ UNCHANGED <<temps, objects, lastRead, nonStoreVars>>

\* fs::rename(from, to): the name `to` leads to the file `from` led to
RenameEffect(objs, file, to) == (to :> file) @@ objs

\* and the name `from` is no more
RenameTemps(ts, from) == [t \in DOMAIN ts \ {from} |-> ts[t]]

\* the descriptors that led to the file the rename replaced lead to no name now
Replaced(pr, id) ==
    [q \in Procs |->
       [pr[q] EXCEPT !.stack =
          [i \in DOMAIN pr[q].stack |->
             IF pr[q].stack[i].holds = "obj" /\ Sha1Hex(pr[q].stack[i].data) = id
             THEN [pr[q].stack[i] EXCEPT !.holds = "gone"]
             ELSE pr[q].stack[i]]]]

\* fs::rename(&self.temp_path, new_path); self.renamed = true
Rename(p) ==
    /\ Running(p) /\ UsesWriter(Top(p)) /\ Top(p).stage = "rename"
    /\ LET id == Sha1Hex(Top(p).data)
       IN  /\ objects' = RenameEffect(objects, temps[TempName(p)], id)
           /\ temps' = RenameTemps(temps, TempName(p))
           /\ proc' = [Replaced(proc, id) EXCEPT
                  ![p].stack[Len(Stack(p))] =
                      [Top(p) EXCEPT !.renamed = TRUE, !.holds = "obj", !.stage = "drop"],
                  ![p].added = (@ \ {<<"tmp", TempName(p)>>})
                               \cup (IF id \in DOMAIN objects THEN {} ELSE {<<"obj", id>>})]
    /\ UNCHANGED <<fanout, lastRead, nonStoreVars>>

\* hash_object: OpenOptions write, create, truncate on the final path
HoOpen(p) ==
    /\ Running(p) /\ Top(p).fn = "hash_object" /\ Top(p).stage = "open"
    /\ LET id == Sha1Hex(Top(p).data)
       IN  /\ objects' = (id :> OnDisk(<<>>, FALSE)) @@ objects
           /\ proc' = [proc EXCEPT
                  ![p].stack[Len(Stack(p))] = [Top(p) EXCEPT !.holds = "obj", !.stage = "write"],
                  ![p].added = IF id \in DOMAIN objects THEN @ ELSE @ \cup {<<"obj", id>>}]
    /\ UNCHANGED <<temps, fanout, lastRead, nonStoreVars>>

\* Drop for ObjectWriter: the temporary file names it unlinks
ObjectWriterDrop(f, name) == IF ~f.renamed THEN {name} ELSE {}

\* then the fields are dropped: NamedTempFile unlinks the path it was created at
NamedTempFileDrop(f, name) == IF f.holds # "none" THEN {name} ELSE {}

\* a writer that lets go of its temporary file without unlinking it
DropUnlinksNothing(f, name) == {}

\* the temporary file names the destruction of a frame's writer unlinks
DropUnlinks(f, name) ==
    IF UsesWriter(f) THEN ObjectWriterDrop(f, name) \cup NamedTempFileDrop(f, name) ELSE {}

\* an operation returns Ok(hash) and its writer or encoder goes out of scope:
\* ZlibEncoder's drop finishes the stream into the file it still holds open, so
\* all the sink accepted reaches that file; the writer unlinks what DropUnlinks
\* says; write_tree pushes the entry of the child just written
DropOk(p) ==
    /\ Running(p) /\ Top(p).stage = "drop"
    /\ LET f    == Top(p)
           gone == DropUnlinks(f, TempName(p)) \cap DOMAIN temps
           rest == SubSeq(Stack(p), 1, Len(Stack(p)) - 1)
           e    == TreeEntry(ModeOf(f.node), EntryName(f.node), Sha1Hex(f.data))
       IN  /\ temps' = [t \in DOMAIN temps \ gone |-> TempsAfterWrite(p, f, OnDisk(f.data, TRUE))[t]]
           /\ objects' = ObjectsAfterWrite(f, OnDisk(f.data, TRUE))
           /\ proc' = [proc EXCEPT
                  ![p].stack = IF rest = <<>> THEN rest
                               ELSE [rest EXCEPT ![Len(rest)] =
                                        [@ EXCEPT !.contents = Append(@, e), !.stage = "iter"]],
                  ![p].result = IF rest = <<>> THEN "Ok" ELSE @,
                  ![p].added = @ \ {<<"tmp", t>> : t \in gone}]
    /\ UNCHANGED <<fanout, lastRead, nonStoreVars>>

\* the error of a `?` leaves one function, whose locals are dropped: the writer
\* unlinks its temporary file; an encoder dropped in the middle of its writes
\* finishes the stream with what it had accepted
Propagate(p) ==
    LET f    == [Top(p) EXCEPT !.data = DataOf(Top(p))]
        gone == DropUnlinks(f, TempName(p)) \cap DOMAIN temps
        rest == SubSeq(Stack(p), 1, Len(Stack(p)) - 1)
    IN  /\ \E accepted \in FlushPoints(f.data) \ {f.data} :
             /\ temps' = [t \in DOMAIN temps \ gone |->
                            TempsAfterWrite(p, f, OnDisk(accepted, TRUE))[t]]
             /\ objects' = ObjectsAfterWrite(f, OnDisk(accepted, TRUE))
        /\ proc' = [proc EXCEPT
               ![p].stack = rest,
               ![p].unwinding = rest # <<>>,
               ![p].result = IF rest = <<>> THEN "Err" ELSE @,
               ![p].added = @ \ {<<"tmp", t>> : t \in gone}]
        /\ UNCHANGED <<fanout, lastRead, nonStoreVars>>

\* any `?` of the operation on top returns an error: File::open, NamedTempFile::new_in,
\* read_dir, metadata, a write, create_dir_all, rename
Fail(p) ==
    /\ Running(p) /\ Top(p).fn # "cat_file"
    /\ Top(p).stage \in {"new", "iter", "write", "ensure_dir", "open", "rename"}
    /\ Propagate(p)

\* the caller's `?` passes the error on
Unwind(p) ==
    /\ proc[p].unwinding
    /\ Propagate(p)

\* cat_file: the name is resolved to the one file at its final path, which is
\* opened and inflated; the reader gets the object, or a stream that is cut short
CatFile(p) ==
    /\ Running(p) /\ Top(p).fn = "cat_file" /\ Top(p).stage = "new"
    /\ LET id == Sha1Hex(DataOf(Top(p)))
       IN  /\ lastRead' = IF id \notin DOMAIN objects THEN lastRead
                          ELSE IF Complete(id) THEN "complete" ELSE "partial"
           /\ proc' = [proc EXCEPT ![p].stack = <<>>,
                                   ![p].result = IF id \in DOMAIN objects /\ Complete(id)
                                                 THEN "Ok" ELSE "Err"]
    /\ UNCHANGED <<temps, objects, fanout, nonStoreVars>>

-----------------------------------------------------------------------------
(* Claims about Spec *)

WriteCalls == {"write_blob", "write_tree", "write_commit"}

\* C1: in every reachable state every file at a final path objects/xx/yyyy... is a
\* finished object whose inflated bytes hash to its name, and no reader has been
\* handed a stream that is cut short
C1_FinalPathsComplete ==
    /\ \A id \in DOMAIN objects : Complete(id)
    /\ lastRead # "partial"

\* C2: when write_blob, write_tree or write_commit has returned an error, nothing
\* the call created is left: no object file, no fan-out directory, no temporary file
C2_FailedCallAddsNothing ==
    \A p \in Procs :
        (proc[p].result = "Err" /\ proc[p].fn \in WriteCalls) => proc[p].added = {}

\* every temporary file in objects/ belongs to a writer that is still open and
\* has not renamed it
TempsOwned ==
    \A t \in DOMAIN temps :
        \E p \in Procs : \E i \in DOMAIN Stack(p) :
            /\ t = <<p, i>>
            /\ Stack(p)[i].holds = "tmp"
            /\ ~Stack(p)[i].renamed

\* the destruction of a writer that has renamed its file takes no name away
RenamedDropRemovesNothing ==
    \A p \in Procs :
        (/\ Running(p) /\ Top(p).stage = "drop" /\ Top(p).renamed
         /\ Len(proc'[p].stack) < Len(proc[p].stack))
        => (DOMAIN temps' = DOMAIN temps /\ DOMAIN objects' = DOMAIN objects)

\* C3: whatever calls were made and wherever they failed, no temporary file
\* outlives its writer (none is left once the calls are over), and the drop of a
\* writer whose rename succeeded removes nothing
C3_NoTempFileRemains == []TempsOwned /\ [][RenamedDropRemovesNothing]_vars

\* a write_tree that had published a child failed with two writers open, and no
\* temporary file is left
C3_Witness ==
    \E p \in Procs :
        /\ proc[p].fn = "write_tree" /\ proc[p].result = "Err"
        /\ \E a \in proc[p].added : a[1] = "obj"
        /\ DOMAIN temps = {}

-----------------------------------------------------------------------------
(* SpecWriter: one Object Writer, its hasher and its encoder *)

\* longest file content
MaxFileLen == 3

FileBytes == {104, 105}

RECURSIVE SeqsUpTo(_, _)
SeqsUpTo(S, n) ==
    IF n = 0 THEN {<<>>}
    ELSE SeqsUpTo(S, n - 1) \cup {Append(q, x) : q \in {r \in SeqsUpTo(S, n - 1) : Len(r) = n - 1}, x \in S}

\* the pieces write!(writer, "<type> {}\0", size) passes to write_all, one by one
HeaderPieces(type, size) == <<type \o <<32>>, Decimal(size), <<0>>>>

\* ObjectManipulator::hash_blob: the header and the file go into a Sha1, which
\* takes all it is given
HashBlobOf(content) == Sha1Hex(Header(TypeBlob, Len(content)) \o content)

InitWriter ==
    /\ wKind \in {"write_blob", "write_commit"}
    /\ wFile \in SeqsUpTo(FileBytes, MaxFileLen)
    /\ wPc = "start"
    /\ wQueue = <<>> /\ wHashed = <<>> /\ wAccepted = <<>> /\ wPending = <<>>
    /\ wRest = <<>> /\ wHashBlob = <<>> /\ wWriteBlob = <<>>

\* hash_blob(path)
HashBlob ==
    /\ wPc = "start"
    /\ wHashBlob' = HashBlobOf(wFile)
    /\ wPc' = "new"
    /\ UNCHANGED <<wKind, wFile, wQueue, wHashed, wAccepted, wPending, wRest, wWriteBlob,
                   nonWriterVars>>

\* ObjectWriter::new, then write!(writer, "blob {}\0", size) or
\* write!(writer, "commit {}\0", len) starts
WriterStart ==
    /\ wPc = "new"
    /\ wQueue' = HeaderPieces(IF wKind = "write_blob" THEN TypeBlob ELSE TypeCommit, Len(wFile))
    /\ wRest' = wFile
    /\ wPc' = "header"
    /\ UNCHANGED <<wKind, wFile, wHashed, wAccepted, wPending, wHashBlob, wWriteBlob,
                   nonWriterVars>>

\* write_fmt hands the next piece of the header to write_all
NextPiece ==
    /\ wPc = "header" /\ wPending = <<>> /\ wQueue # <<>>
    /\ wPending' = Head(wQueue)
    /\ wQueue' = Tail(wQueue)
    /\ UNCHANGED <<wKind, wFile, wPc, wHashed, wAccepted, wRest, wHashBlob, wWriteBlob,
                   nonWriterVars>>

\* the header is out: io::copy begins, or write_commit's single writer.write
HeaderDone ==
    /\ wPc = "header" /\ wPending = <<>> /\ wQueue = <<>>
    /\ wPc' = IF wKind = "write_blob" THEN "copy" ELSE "body"
    /\ UNCHANGED <<wKind, wFile, wQueue, wHashed, wAccepted, wPending, wRest, wHashBlob,
                   wWriteBlob, nonWriterVars>>

\* io::copy reads some bytes of the file into its buffer and passes them to write_all
CopyRead ==
    /\ wPc = "copy" /\ wPending = <<>> /\ wRest # <<>>
    /\ \E n \in 1..Len(wRest) :
         /\ wPending' = SubSeq(wRest, 1, n)
         /\ wRest' = SubSeq(wRest, n + 1, Len(wRest))
    /\ UNCHANGED <<wKind, wFile, wPc, wQueue, wHashed, wAccepted, wHashBlob, wWriteBlob,
                   nonWriterVars>>

\* what a call of ObjectWriter::write(buf) feeds the hasher: self.hasher.update(buf)
HasherUpdate(hashed, buf, n) == hashed \o buf

\* <ObjectWriter as Write>::write(buf), called by write_all: the hasher takes buf,
\* the encoder accepts n of its bytes (at least one) and write returns n;
\* write_all goes on with the rest
WriteCall ==
    /\ wPc \in {"header", "copy"} /\ wPending # <<>>
    /\ \E n \in 1..Len(wPending) :
         /\ wHashed' = HasherUpdate(wHashed, wPending, n)
         /\ wAccepted' = wAccepted \o SubSeq(wPending, 1, n)
         /\ wPending' = SubSeq(wPending, n + 1, Len(wPending))
    /\ UNCHANGED <<wKind, wFile, wPc, wQueue, wRest, wHashBlob, wWriteBlob, nonWriterVars>>

\* write_commit's writer.write(info_bytes)?: one call, its count is not looked at
WriteOnce ==
    /\ wPc = "body"
    /\ \E n \in (IF wRest = <<>> THEN {0} ELSE 1..Len(wRest)) :
         /\ wHashed' = HasherUpdate(wHashed, wRest, n)
         /\ wAccepted' = wAccepted \o SubSeq(wRest, 1, n)
    /\ wRest' = <<>>
    /\ wPc' = "finalize"
    /\ UNCHANGED <<wKind, wFile, wQueue, wPending, wHashBlob, wWriteBlob, nonWriterVars>>

\* io::copy returns the number of bytes it copied, which is the file's size
CopyDone ==
    /\ wPc = "copy" /\ wPending = <<>> /\ wRest = <<>>
    /\ wPc' = "finalize"
    /\ UNCHANGED <<wKind, wFile, wQueue, wHashed, wAccepted, wPending, wRest, wHashBlob,
                   wWriteBlob, nonWriterVars>>

\* writer.finalize(): the identifier is the digest of what the hasher was fed; the
\* file renamed is what the encoder accepted
Finalize ==
    /\ wPc = "finalize"
    /\ wWriteBlob' = Sha1Hex(wHashed)
    /\ wPc' = "done"
    /\ UNCHANGED <<wKind, wFile, wQueue, wHashed, wAccepted, wPending, wRest, wHashBlob,
                   nonWriterVars>>

NextWriter ==
    \/ HashBlob
    \/ WriterStart
    \/ NextPiece
    \/ HeaderDone
    \/ CopyRead
    \/ WriteCall
    \/ WriteOnce
    \/ CopyDone
    \/ Finalize

\* C4: for a file that does not change, write_blob returns the identifier hash_blob
\* returns, however io::copy splits the content and however many bytes the
\* compressor accepts on each call
C4_WriteBlobEqualsHashBlob ==
    (wPc = "done" /\ wKind = "write_blob") => wWriteBlob = wHashBlob

\* C10: when the writer is finalized, the bytes fed to the running digest are the
\* bytes the compressor accepted, so the identifier is the digest of what the
\* stored file inflates to
C10_DigestCoversAccepted ==
    wPc = "done" => (wHashed = wAccepted /\ wWriteBlob = Sha1Hex(wAccepted))

-----------------------------------------------------------------------------
(* SpecCodec: TreeEntry::as_bytes and the read_tree loop *)

SHA1_LENGTH == 20

\* entries of the tree object read back
MaxEntries == 2

\* a digest: its first byte, then nineteen times another byte
Digest(b1, b2) == <<b1>> \o [i \in 1..(SHA1_LENGTH - 1) |-> b2]

\* format!("{:x}", digest): two characters for each byte
RECURSIVE DigestHex(_)
DigestHex(d) == IF d = <<>> THEN <<>> ELSE HexByte(Head(d)) \o DigestHex(Tail(d))

\* digests with and without bytes below 0x10, and with the bytes 0 and 32 that
\* delimit the text part of a record
CodecDigests == {Digest(171, 205), Digest(10, 171), Digest(32, 0)}

\* names: "a" and "a b"
CodecNames == {<<97>>, <<97, 32, 98>>}

CodecEntries ==
    {TreeEntry(m, n, DigestHex(d)) : m \in {Mode100644, Mode40000}, n \in CodecNames,
                                     d \in CodecDigests}

\* a usize is kept as its representative of least magnitude modulo 2^64: v itself
\* below 2^63, v - 2^64 from there on.  Sums and differences of representatives
\* are exact as long as they are small, which the bounds above ensure.
\* `a -= b` in a build without overflow checks
WrappingSub(a, b) == a - b

\* `left > 0` on a usize: every value but zero
UsizeIsPositive(x) == x # 0

\* `a -= b` overflows: a and b being small values, when b is the larger
SubOverflows(a, b) == a >= 0 /\ b >= 0 /\ b > a

\* String::from_utf8 succeeds: ASCII bytes and U+FFFD (EF BF BD) are all the
\* well-formed sequences that names here are made of
RECURSIVE FromUtf8Ok(_)
FromUtf8Ok(bytes) ==
    IF bytes = <<>> THEN TRUE
    ELSE IF Head(bytes) < 128 THEN FromUtf8Ok(Tail(bytes))
    ELSE /\ StartsWith(bytes, <<239, 191, 189>>)
         /\ FromUtf8Ok(SubSeq(bytes, 4, Len(bytes)))

\* index of the first b in s, 0 when there is none
RECURSIVE IndexOf(_, _)
IndexOf(s, b) ==
    IF s = <<>> THEN 0
    ELSE IF Head(s) = b THEN 1
    ELSE LET i == IndexOf(Tail(s), b) IN IF i = 0 THEN 0 ELSE 1 + i

\* reader.read_until(0, ..): the bytes up to and including the first 0, or all
\* that is left when there is none
ReadUntilZero(stream) ==
    IF IndexOf(stream, 0) = 0 THEN stream ELSE SubSeq(stream, 1, IndexOf(stream, 0))

\* hash_buf.iter().map(|byte| format!("{:x}", byte)).collect().join("")
RECURSIVE HashBufHex(_)
HashBufHex(buf) == IF buf = <<>> THEN <<>> ELSE HexNoPad(Head(buf)) \o HashBufHex(Tail(buf))

InitCodec ==
    /\ cType \in {TypeTree, TypeBlob}
    /\ cEntries \in SeqsUpTo(CodecEntries, MaxEntries)
    /\ cDeclared \in 0..(SumLenAsBytes(cEntries) + 1)
    /\ cStream = MapAsBytes(cEntries)
    /\ cLeft = 0 /\ cContents = <<>> /\ cStatus = "start" /\ cWrapped = FALSE

\* read_tree up to the loop: the header is read, its type checked, its length parsed
ReadTreeHeader ==
    /\ cStatus = "start"
    /\ IF StartsWith(Header(cType, cDeclared), TypeTree \o <<32>>)
       THEN cLeft' = cDeclared /\ cStatus' = "loop"
       ELSE cLeft' = cLeft /\ cStatus' = "err"
    /\ UNCHANGED <<cType, cEntries, cDeclared, cStream, cContents, cWrapped, nonCodecVars>>

\* one iteration of `while left > 0`
ReadTreeEntry ==
    /\ cStatus = "loop" /\ UsizeIsPositive(cLeft)
    /\ LET raw      == ReadUntilZero(cStream)
           rest     == SubSeq(cStream, Len(raw) + 1, Len(cStream))
           hash_buf == SubSeq(rest, 1, SHA1_LENGTH)
           space    == IndexOf(raw, 32)
           mode     == SubSeq(raw, 1, space - 1)
           vec      == SubSeq(raw, space + 1, Len(raw))
           used     == Len(raw) + SHA1_LENGTH
           entry    == TreeEntry(mode, SubSeq(vec, 1, Len(vec) - 1), HashBufHex(hash_buf))
       IN  IF Len(rest) < SHA1_LENGTH \/ ~FromUtf8Ok(raw) \/ space = 0
           THEN \* read_exact fails, from_utf8 fails, or bail!("corrupt stuff!")
                /\ cStatus' = "err"
                /\ cStream' = <<>>
                /\ UNCHANGED <<cLeft, cContents, cWrapped>>
           ELSE IF SubOverflows(cLeft, used)
           THEN \* the subtraction panics where overflow is checked, wraps where not
                \/ /\ cStatus' = "panic"
                   /\ cStream' = <<>>
                   /\ UNCHANGED <<cLeft, cContents, cWrapped>>
                \/ /\ cLeft' = WrappingSub(cLeft, used)
                   /\ cWrapped' = TRUE
                   /\ cStream' = SubSeq(rest, SHA1_LENGTH + 1, Len(rest))
                   /\ cContents' = Append(cContents, entry)
                   /\ UNCHANGED cStatus
           ELSE /\ cLeft' = WrappingSub(cLeft, used)
                /\ cStream' = SubSeq(rest, SHA1_LENGTH + 1, Len(rest))
                /\ cContents' = Append(cContents, entry)
                /\ UNCHANGED <<cStatus, cWrapped>>
    /\ UNCHANGED <<cType, cEntries, cDeclared, nonCodecVars>>

\* the loop ends: Ok(contents)
ReadTreeDone ==
    /\ cStatus = "loop" /\ ~UsizeIsPositive(cLeft)
    /\ cStatus' = "ok"
    /\ UNCHANGED <<cType, cEntries, cDeclared, cStream, cLeft, cContents, cWrapped,
                   nonCodecVars>>

NextCodec ==
    \/ ReadTreeHeader
    \/ ReadTreeEntry
    \/ ReadTreeDone

\* C5: a tree object made of the records of some entries, with the length they sum
\* to, is read back by read_tree as these same entries (mode, name and 40-hex hash),
\* in the same order, whatever the bytes of the digests
C5_EncodeDecodeRoundTrip ==
    (cStatus = "ok" /\ cDeclared = SumLenAsBytes(cEntries)) => cContents = cEntries

\* C9: read_tree's remaining-bytes counter never goes below zero or wraps, no run
\* is cut by a panic, and read_tree returns its entries only when the declared
\* length is the sum of the lengths of the records
C9_ReadTreeCounter ==
    /\ ~cWrapped
    /\ cStatus # "panic"
    /\ cLeft >= 0
    /\ cStatus = "ok" => cDeclared = SumLenAsBytes(cEntries)

-----------------------------------------------------------------------------
(* SpecResolve: get_object_path over the objects stored in a repository *)

\* objects stored
MaxStored == 3

\* an identifier: five characters, thirty-four zeros, a last character
ObjectId(head, last) == head \o [i \in 1..34 |-> 48] \o <<last>>

\* ce013 ce014 cf013
IdHeads == {<<99, 101, 48, 49, 51>>, <<99, 101, 48, 49, 52>>, <<99, 102, 48, 49, 51>>}

ObjectIds == {ObjectId(h, l) : h \in IdHeads, l \in {48, 49}}

\* str::to_lowercase, on ASCII text
ToLowercase(st) == [i \in 1..Len(st) |-> IF st[i] >= 65 /\ st[i] <= 90 THEN st[i] + 32 ELSE st[i]]

ToUppercase(st) == [i \in 1..Len(st) |-> IF st[i] >= 97 /\ st[i] <= 122 THEN st[i] - 32 ELSE st[i]]

\* the names asked for: every prefix of an identifier, the same in capitals, an
\* identifier with one character more, and names with letters that are not digits
Queries ==
    LET ps == UNION {Prefixes(id) : id \in ObjectIds}
    IN  ps \cup {ToUppercase(q) : q \in ps} \cup {Append(id, 48) : id \in ObjectIds}
           \cup {<<122, 122, 48, 48>>, <<99, 101, 48, 103>>, <<99, 101, 48, 45>>}

\* valid_partial_sha1_name
ValidPartialSha1Name(name) ==
    /\ Len(name) > 3
    /\ Len(name) < 41
    /\ \A i \in 1..Len(name) :
         (name[i] >= 48 /\ name[i] <= 57) \/ (name[i] >= 97 /\ name[i] <= 122)

\* the path of a stored object: its directory under objects/ and its file name
ObjectPath(id) == <<SubSeq(id, 1, 2), SubSeq(id, 3, Len(id))>>

\* the directories under objects/: one for each two first characters in use
FanoutDirs(stored) == {ObjectPath(id)[1] : id \in stored}

\* fs::read_dir(dir): the file names in objects/<prefix>
ReadDir(stored, prefix) == {ObjectPath(id)[2] : id \in {h \in stored : ObjectPath(h)[1] = prefix}}

\* a survivor of `candidates.len() != 1`, were it to let several candidates pass
SomeCandidate(candidates) == Cardinality(candidates) >= 1

\* `candidates.len() != 1` does not bail
OneCandidate(candidates) == Cardinality(candidates) = 1

ResolveErr == [status |-> "err", path |-> <<>>]

\* get_object_path(object), in a repository find_git_dir accepts
GetObjectPath(stored, object) ==
    LET lower  == ToLowercase(object)
        prefix == SubSeq(lower, 1, 2)
        rest   == SubSeq(lower, 3, Len(lower))
        candidates == {f \in ReadDir(stored, prefix) : StartsWith(f, rest)}
    IN  IF ~ValidPartialSha1Name(lower) THEN ResolveErr
        ELSE IF prefix \notin FanoutDirs(stored) THEN ResolveErr
        ELSE IF ~OneCandidate(candidates) THEN ResolveErr
        ELSE [status |-> "ok", path |-> <<prefix, CHOOSE f \in candidates : TRUE>>]

InitResolve ==
    /\ rStored = {}
    /\ rQuery = <<>>
    /\ rResult = [status |-> "none", path |-> <<>>]

\* an object is written into the repository
StoreObject ==
    /\ Cardinality(rStored) < MaxStored
    /\ \E id \in ObjectIds \ rStored : rStored' = rStored \cup {id}
    /\ rQuery' = <<>>
    /\ rResult' = [status |-> "none", path |-> <<>>]
    /\ UNCHANGED nonResolveVars

\* a call of get_object_path
Resolve ==
    /\ \E q \in Queries :
         /\ rQuery' = q
         /\ rResult' = GetObjectPath(rStored, q)
    /\ UNCHANGED <<rStored, nonResolveVars>>

NextResolve ==
    \/ StoreObject
    \/ Resolve

\* the stored identifiers the name asked for is a prefix of, once in lowercase
Matching == {h \in rStored : StartsWith(h, ToLowercase(rQuery))}

\* C6: asked for a prefix, four to forty characters long, of a stored identifier,
\* get_object_path returns the path of that object when no other stored identifier
\* starts with the prefix (so a prefix and the full identifier resolve alike, the
\* full one always), and fails when two or more do; it never returns a path when
\* no stored identifier, or more than one, matches
C6_PrefixResolution ==
    rResult.status # "none" =>
        /\ \A h \in rStored :
             (StartsWith(h, rQuery) /\ Len(rQuery) >= 4 /\ Len(rQuery) <= 40) =>
                 /\ (\A g \in rStored : StartsWith(g, rQuery) => g = h)
                        => rResult = [status |-> "ok", path |-> ObjectPath(h)]
                 /\ (\E g \in rStored : g # h /\ StartsWith(g, rQuery))
                        => rResult.status = "err"
                 /\ GetObjectPath(rStored, h) = [status |-> "ok", path |-> ObjectPath(h)]
        /\ rResult.status = "ok" => Cardinality(Matching) = 1

\* a prefix shorter than the full identifier that two stored objects share is
\* refused
C6_Witness ==
    /\ rResult.status = "err"
    /\ Len(rQuery) >= 4 /\ Len(rQuery) < 40
    /\ \E h, g \in rStored : h # g /\ StartsWith(h, rQuery) /\ StartsWith(g, rQuery)

-----------------------------------------------------------------------------
(* SpecTree: one directory level of write_tree *)

\* children of the directory
MaxChildren == 3

\* what the directory may hold: files a (plain) and b (executable), a directory d,
\* links l (to a file), m (to a directory) and n (to nothing), two files whose
\* names are the single bytes FF and FE, and .git
TreeChildren ==
    { Node("file", <<97>>, FALSE, <<104>>, {}, "none"),
      Node("file", <<98>>, TRUE, <<104>>, {}, "none"),
      Node("dir", <<100>>, FALSE, <<>>, {}, "none"),
      Node("symlink", <<108>>, FALSE, <<104>>, {}, "file"),
      Node("symlink", <<109>>, FALSE, <<>>, {}, "dir"),
      Node("symlink", <<110>>, FALSE, <<>>, {}, "dangling"),
      Node("file", <<255>>, FALSE, <<104>>, {}, "none"),
      Node("file", <<254>>, FALSE, <<105>>, {}, "none"),
      Node("dir", DotGit, FALSE, <<>>, {}, "none") }

\* the identifier write_tree gets for a child: Self::write_tree for what is_dir
\* accepts (the directories here are empty), Self::write_blob for the rest
HashOfChild(node) ==
    IF PathIsDir(node) THEN Sha1Hex(TreeData(<<>>)) ELSE Sha1Hex(BlobData(node.content))

InitTree ==
    /\ tDir \in {d \in SUBSET TreeChildren : Cardinality(d) <= MaxChildren}
    /\ tOrder = tDir
    /\ tContents = <<>>
    /\ tStatus = "iter"
    /\ tModes = <<>>
    /\ tWritten = <<>>

\* one iteration of `while let Some(Ok(entry)) = it.next()`
TreeEntryStep ==
    /\ tStatus = "iter"
    /\ \E c \in tOrder :
         /\ tOrder' = tOrder \ {c}
         /\ IF ~Keep(c)
            THEN UNCHANGED <<tContents, tStatus, tModes>>
            ELSE IF ~MetadataOk(c)
            THEN \* write_blob cannot open the file: `?` returns the error
                 /\ tStatus' = "err"
                 /\ UNCHANGED <<tContents, tModes>>
            ELSE /\ tContents' = Append(tContents,
                                        TreeEntry(ModeOf(c), EntryName(c), HashOfChild(c)))
                 /\ tModes' = [n \in DOMAIN tModes \cup {c.name} |->
                                 IF n = c.name THEN ModeOf(c) ELSE tModes[n]]
                 /\ UNCHANGED tStatus
    /\ UNCHANGED <<tDir, tWritten, nonTreeVars>>

\* it.next() returns None, or an error (which ends the loop just as well); the
\* entries collected are sorted and written, and the writer finalized
TreeWrite ==
    /\ tStatus = "iter"
    /\ tWritten' = SortByName(tContents)
    /\ tStatus' = "written"
    /\ UNCHANGED <<tDir, tOrder, tContents, tModes, nonTreeVars>>

NextTree ==
    \/ TreeEntryStep
    \/ TreeWrite

\* the mode a child is to be recorded with
ExpectedMode(node) ==
    IF node.kind = "dir" THEN Mode40000
    ELSE IF node.kind = "symlink" THEN Mode120000
    ELSE IF node.exec THEN Mode100755
    ELSE Mode100644

\* C7: the mode write_tree records for a retained child is 40000 for a directory,
\* 120000 for a symbolic link whatever its target, 100755 for a regular file with
\* an execute bit and 100644 for any other regular file
C7_ModeOfChild ==
    \A c \in tDir : c.name \in DOMAIN tModes => tModes[c.name] = ExpectedMode(c)

\* C8: the entries of a written tree are in strictly increasing byte-lexicographic
\* order of name, no two with the same name, in whatever order the directory was
\* enumerated
C8_StrictlySortedNames ==
    tStatus = "written" =>
        \A i, j \in 1..Len(tWritten) :
            i < j => LexLess(tWritten[i].name, tWritten[j].name)

-----------------------------------------------------------------------------
(* The variables of the specifications that are not running keep these values *)

IdleStore ==
    /\ temps = <<>> /\ objects = <<>> /\ fanout = {}
    /\ proc = <<>> /\ lastRead = "none"

IdleWriter ==
    /\ wKind = "none" /\ wFile = <<>> /\ wPc = "idle" /\ wQueue = <<>>
    /\ wHashed = <<>> /\ wAccepted = <<>>
    /\ wPending = <<>> /\ wRest = <<>> /\ wHashBlob = <<>> /\ wWriteBlob = <<>>

IdleCodec ==
    /\ cType = <<>> /\ cEntries = <<>> /\ cDeclared = 0 /\ cStream = <<>> /\ cLeft = 0
    /\ cContents = <<>> /\ cStatus = "idle" /\ cWrapped = FALSE

IdleResolve == rStored = {} /\ rQuery = <<>> /\ rResult = [status |-> "none", path |-> <<>>]

IdleTree ==
    /\ tDir = {} /\ tOrder = {} /\ tContents = <<>> /\ tStatus = "idle"
    /\ tModes = <<>>
    /\ tWritten = <<>>

-----------------------------------------------------------------------------
Init == InitStore /\ IdleWriter /\ IdleCodec /\ IdleResolve /\ IdleTree

Next ==
    \/ \E p \in Procs : Call(p)
    \/ \E p \in Procs : WriterNew(p)
    \/ \E p \in Procs : TreeIter(p)
    \/ \E p \in Procs : Write(p)
    \/ \E p \in Procs : HoHash(p)
    \/ \E p \in Procs : EnsureDir(p)
    \/ \E p \in Procs : Rename(p)
    \/ \E p \in Procs : HoOpen(p)
    \/ \E p \in Procs : DropOk(p)
    \/ \E p \in Procs : Fail(p)
    \/ \E p \in Procs : Unwind(p)
    \/ \E p \in Procs : CatFile(p)

Spec == Init /\ [][Next]_vars

CodecInit == IdleStore /\ IdleWriter /\ InitCodec /\ IdleResolve /\ IdleTree

SpecCodec == CodecInit /\ [][NextCodec]_vars

ResolveInit == IdleStore /\ IdleWriter /\ IdleCodec /\ InitResolve /\ IdleTree

SpecResolve == ResolveInit /\ [][NextResolve]_vars

TreeInit == IdleStore /\ IdleWriter /\ IdleCodec /\ IdleResolve /\ InitTree

SpecTree == TreeInit /\ [][NextTree]_vars

WriterInit == IdleStore /\ InitWriter /\ IdleCodec /\ IdleResolve /\ IdleTree

SpecWriter == WriterInit /\ [][NextWriter]_vars

====
